---- MODULE Spec2Model ----
(***************************************************************************)
(* A model of the Duc retrieval-augmented question-answering service:      *)
(* the citation builder (app/utils/citations.py), the chat pipeline and    *)
(* its in-memory session store (app/chains.py, the /chat handler of        *)
(* app/main.py), the upload handler (app/main.py, app/utils/loaders.py,    *)
(* app/utils/embeddings.py) and the document listing and deletion handlers *)
(* (app/main.py).                                                          *)
(*                                                                         *)
(* Python strings are sequences of one-character strings, so that          *)
(* formatting, trimming and splitting are computed and not assumed.        *)
(* A Python scalar (a metadata value, an optional form field) is a record  *)
(* [ty, n, s]: ty is "none", "int" or "str".  A metadata dict is a         *)
(* function whose DOMAIN is the set of keys present.                       *)
(***************************************************************************)
EXTENDS Integers, Sequences, FiniteSets, TLC

VARIABLES
    retrieved,      \* citations.py: the argument `docs` of build_citations
    citations,      \* citations.py: the list build_citations returned
    cit_pc,         \* "input" before the call, "done" after it
    index,          \* main.py _vectordb: the stored chunks, in insertion order
    store,          \* chains.py _SESSION_STORE: session_id -> list of messages
    chat,           \* the /chat requests, numbered in arrival order
    gen_order,      \* per session, the requests in the order their
                    \* llm.invoke returned (bookkeeping, never read by an action)
    settings,       \* settings.py: chunk_size and chunk_overlap
    uploads,        \* the /upload requests, numbered in arrival order
    next_id,        \* the number of ids the collection has assigned
    manage,         \* main.py: the last /documents request and its response
    call            \* loaders.py: one call of load_file or split_docs, its
                    \* arguments and, once it returned, its result

citVars == <<retrieved, citations, cit_pc>>
chatVars == <<store, chat, gen_order>>
upVars == <<settings, uploads, next_id>>
opVars == <<manage, call>>
vars == <<retrieved, citations, cit_pc, index, store, chat, gen_order,
          settings, uploads, next_id, manage, call>>

\* no /documents request was made yet; `after` is what the request before
\* the last one was and answered (bookkeeping, never read by a handler)
NoManage ==
    [kind |-> "none", filename |-> <<>>, status |-> 0, chunks_deleted |-> 0,
     total_documents |-> 0, total_chunks |-> 0, documents |-> <<>>,
     after |-> [kind |-> "none", status |-> 0, chunks_deleted |-> 0]]

\* no call of load_file or split_docs is followed
NoCall == [pc |-> "none", path_name |-> <<>>, metadata |-> <<>>, docs |-> <<>>,
           result |-> <<>>]

(***************************************************************************)
(* Python values                                                           *)
(***************************************************************************)
PyNone == [ty |-> "none", n |-> 0, s |-> <<>>]
PyInt(i) == [ty |-> "int", n |-> i, s |-> <<>>]
PyStr(str) == [ty |-> "str", n |-> 0, s |-> str]

\* bool(v): None, 0 and "" are falsy
Truthy(v) == CASE v.ty = "none" -> FALSE
               [] v.ty = "int" -> v.n # 0
               [] v.ty = "str" -> v.s # <<>>

Digit(d) == CASE d = 0 -> "0" [] d = 1 -> "1" [] d = 2 -> "2" [] d = 3 -> "3"
              [] d = 4 -> "4" [] d = 5 -> "5" [] d = 6 -> "6" [] d = 7 -> "7"
              [] d = 8 -> "8" [] d = 9 -> "9"

RECURSIVE NatStr(_)
NatStr(i) == IF i < 10 THEN <<Digit(i)>> ELSE NatStr(i \div 10) \o <<Digit(i % 10)>>

\* format(v, ""), what an f-string does with {v}
Format(v) == CASE v.ty = "none" -> <<"N", "o", "n", "e">>
               [] v.ty = "int" -> IF v.n < 0 THEN <<"-">> \o NatStr(0 - v.n) ELSE NatStr(v.n)
               [] v.ty = "str" -> v.s

\* dict.get(key, default)
MetaGet(meta, key, default) == IF key \in DOMAIN meta THEN meta[key] ELSE default

(***************************************************************************)
(* app/utils/citations.py                                                  *)
(***************************************************************************)
SnippetLen == 240

\* mutant: a content of exactly 240 characters is cut as well
SnippetAtLimit(content) ==
    IF Len(content) >= SnippetLen
    THEN SubSeq(content, 1, SnippetLen) \o <<"...">>
    ELSE content

\* (content[:240] + ELLIPSIS) if len(content) > 240 else content, ELLIPSIS
\* being the one character U+2026, written "..." here
Snippet(content) ==
    IF Len(content) > SnippetLen
    THEN SubSeq(content, 1, SnippetLen) \o <<"...">>
    ELSE content

\* f"{source}:{meta.get('page', 'none')}"
SourceKey(source, meta) ==
    Format(source) \o <<":">> \o Format(MetaGet(meta, "page", PyStr(<<"n", "o", "n", "e">>)))

\* position of key in the insertion-ordered dict (0 when it is not a key)
KeyIndex(dict, key) ==
    IF \E i \in 1..Len(dict) : dict[i].key = key
    THEN CHOOSE i \in 1..Len(dict) : dict[i].key = key
    ELSE 0

\* mutant: a key that is set again moves to the end
DictSetMoveLast(dict, key, val) ==
    Append(SelectSeq(dict, LAMBDA e : e.key # key), [key |-> key, val |-> val])

\* unique_sources[source_key] = {...}: a new key goes last, a key already
\* present keeps its place
DictSet(dict, key, val) ==
    LET i == KeyIndex(dict, key)
    IN IF i = 0 THEN Append(dict, [key |-> key, val |-> val])
       ELSE [dict EXCEPT ![i] = [key |-> key, val |-> val]]

\* mutant: a chunk as long as the entry of its key replaces it too
CitationWinsOnTie(dict, key, d) ==
    \/ KeyIndex(dict, key) = 0
    \/ Len(d.page_content) >= Len(dict[KeyIndex(dict, key)].val.content)

\* the condition under which a chunk replaces the entry of its key
CitationWins(dict, key, d) ==
    \/ KeyIndex(dict, key) = 0
    \/ Len(d.page_content) > Len(dict[KeyIndex(dict, key)].val.content)

\* one iteration of the loop over docs
CitationStep(dict, d) ==
    LET meta == d.metadata
        source == MetaGet(meta, "source", PyNone)
        key == SourceKey(source, meta)
    IN IF ~Truthy(source) THEN dict
       ELSE IF CitationWins(dict, key, d)
       THEN DictSet(dict, key,
                    [source |-> source,
                     page |-> MetaGet(meta, "page", PyNone),
                     chunk_id |-> MetaGet(meta, "chunk_id", PyNone),
                     content |-> d.page_content,
                     snippet |-> Snippet(d.page_content)])
       ELSE dict

RECURSIVE UniqueSources(_, _)
UniqueSources(dict, docs) ==
    IF docs = <<>> THEN dict
    ELSE UniqueSources(CitationStep(dict, Head(docs)), Tail(docs))

\* build_citations(docs): the dict's values in insertion order, without
\* the temporary content field
build_citations(docs) ==
    LET dict == UniqueSources(<<>>, docs)
    IN [i \in 1..Len(dict) |->
           [source |-> dict[i].val.source,
            page |-> dict[i].val.page,
            chunk_id |-> dict[i].val.chunk_id,
            snippet |-> dict[i].val.snippet]]

(***************************************************************************)
(* Python string operations                                                *)
(***************************************************************************)
Whitespace == {" ", "\t", "\n"}

RECURSIVE LStrip(_)
LStrip(str) ==
    IF str # <<>> /\ Head(str) \in Whitespace THEN LStrip(Tail(str)) ELSE str

RECURSIVE RStrip(_)
RStrip(str) ==
    IF str # <<>> /\ str[Len(str)] \in Whitespace
    THEN RStrip(SubSeq(str, 1, Len(str) - 1))
    ELSE str

\* str.strip()
Strip(str) == RStrip(LStrip(str))

\* str.split(sep): "" gives [""], "a,,b" gives ["a", "", "b"]
RECURSIVE Split(_, _)
Split(str, sep) ==
    IF \E i \in 1..Len(str) : str[i] = sep
    THEN LET i == CHOOSE i \in 1..Len(str) :
                     str[i] = sep /\ \A j \in 1..(i - 1) : str[j] # sep
         IN <<SubSeq(str, 1, i - 1)>> \o Split(SubSeq(str, i + 1, Len(str)), sep)
    ELSE <<str>>

\* sep.join(parts)
RECURSIVE Join(_, _)
Join(parts, sep) ==
    IF parts = <<>> THEN <<>>
    ELSE IF Len(parts) = 1 THEN parts[1]
    ELSE parts[1] \o sep \o Join(Tail(parts), sep)

\* [f(x) for x in xs if x], for the strip of the document filter
RECURSIVE StripNonEmpty(_)
StripNonEmpty(parts) ==
    IF parts = <<>> THEN <<>>
    ELSE IF Strip(Head(parts)) # <<>>
    THEN <<Strip(Head(parts))>> \o StripNonEmpty(Tail(parts))
    ELSE StripNonEmpty(Tail(parts))

\* seq[:n]
FirstN(seq, n) == IF Len(seq) <= n THEN seq ELSE SubSeq(seq, 1, n)

\* mutant: the slice is taken from the start, seq[:n]
LastNFromStart(seq, n) == IF Len(seq) <= n THEN seq ELSE SubSeq(seq, 1, n)

\* seq[-n:]
LastN(seq, n) ==
    IF Len(seq) <= n THEN seq ELSE SubSeq(seq, Len(seq) - n + 1, Len(seq))

\* the lists of at most n elements of S
RECURSIVE ListsUpTo(_, _)
ListsUpTo(S, n) ==
    IF n = 0 THEN {<<>>}
    ELSE LET shorter == ListsUpTo(S, n - 1)
         IN shorter \cup {Append(l, x) : l \in {m \in shorter : Len(m) = n - 1}, x \in S}

(***************************************************************************)
(* app/settings.py                                                         *)
(***************************************************************************)
max_context_docs == 6

\* chunk_size and chunk_overlap as the class declares them
DefaultSettings == [chunk_size |-> 1500, chunk_overlap |-> 200]

(***************************************************************************)
(* The vector store: similarity_search of the Chroma collection.  The      *)
(* embedding decides the ranking, so a ranking is any permutation of the   *)
(* stored chunks; `where` restricts the candidates before the k best are   *)
(* taken.                                                                  *)
(***************************************************************************)
NoFilter == [ty |-> "none", items |-> <<>>]
ListOf(items) == [ty |-> "list", items |-> items]

\* {"source": {"$in": names}} applied to one stored chunk
MatchesWhere(d, where) ==
    \/ where.ty = "none"
    \/ /\ "source" \in DOMAIN d.metadata
       /\ d.metadata["source"].ty = "str"
       /\ \E j \in 1..Len(where.items) : where.items[j] = d.metadata["source"].s

RECURSIVE RankedMatches(_, _, _)
RankedMatches(idx, ranking, where) ==
    IF ranking = <<>> THEN <<>>
    ELSE IF MatchesWhere(idx[Head(ranking)], where)
    THEN <<idx[Head(ranking)]>> \o RankedMatches(idx, Tail(ranking), where)
    ELSE RankedMatches(idx, Tail(ranking), where)

similarity_search(idx, ranking, k, where) ==
    FirstN(RankedMatches(idx, ranking, where), k)

Rankings(n) ==
    {p \in [1..n -> 1..n] : \A i, j \in 1..n : p[i] = p[j] => i = j}

(***************************************************************************)
(* app/chains.py                                                           *)
(***************************************************************************)
HistoryWindow == 6

\* mutant: an empty list counts as a filter
FilterGivenEmptyList(filter_docs) == filter_docs.ty = "list"

\* bool(filter_docs): None and [] are falsy
FilterGiven(filter_docs) == filter_docs.ty = "list" /\ filter_docs.items # <<>>

\* mutant: the filter is not passed to the search
retrieve_contextUnfiltered(idx, ranking, k, filter_docs) ==
    similarity_search(idx, ranking, k, NoFilter)

retrieve_context(idx, ranking, k, filter_docs) ==
    IF FilterGiven(filter_docs)
    THEN similarity_search(idx, ranking, k, ListOf(filter_docs.items))
    ELSE similarity_search(idx, ranking, k, NoFilter)

\* f"[Source: {source}, Page: {page}]\n{d.page_content}"
ContextPart(d) ==
    <<"[", "S", "o", "u", "r", "c", "e", ":", " ">>
    \o Format(MetaGet(d.metadata, "source", PyStr(<<"U", "n", "k", "n", "o", "w", "n">>)))
    \o <<",", " ", "P", "a", "g", "e", ":", " ">>
    \o Format(MetaGet(d.metadata, "page", PyStr(<<"?">>)))
    \o <<"]", "\n">> \o d.page_content

ContextText(docs) ==
    Join([i \in 1..Len(docs) |-> ContextPart(docs[i])],
         <<"\n", "\n", "-", "-", "-", "\n", "\n">>)

\* msg.type.upper() of a HumanMessage and of an AIMessage
TypeUpper(type) == IF type = "human" THEN <<"H", "U", "M", "A", "N">> ELSE <<"A", "I">>

\* "\n".join(f"{msg.type.upper()}: {msg.content}" for msg in recent_messages)
HistoryText(msgs) ==
    Join([i \in 1..Len(msgs) |-> TypeUpper(msgs[i].type) \o <<":", " ">> \o msgs[i].content],
         <<"\n">>)

\* history.messages of a session (get_history gives a new session an empty list)
Hist(st, sid) == IF sid \in DOMAIN st THEN st[sid] ELSE <<>>

\* mutant: every call installs a new, empty history
get_historyAlwaysNew(st, sid) ==
    [x \in DOMAIN st \cup {sid} |-> IF x = sid THEN <<>> ELSE st[x]]

\* get_history: the store after the call
get_history(st, sid) ==
    IF sid \in DOMAIN st THEN st
    ELSE [x \in DOMAIN st \cup {sid} |-> IF x = sid THEN <<>> ELSE st[x]]

\* mutant: the recent messages are taken from all the sessions together
RecentMessagesAnySession(st, sid) ==
    LET RECURSIVE All(_)
        All(S) == IF S = {} THEN <<>>
                  ELSE LET x == CHOOSE x \in S : TRUE IN st[x] \o All(S \ {x})
    IN LastN(All(DOMAIN st), HistoryWindow)

\* history.messages[-6:]
RecentMessages(st, sid) == LastN(Hist(st, sid), HistoryWindow)

HumanMessage(text, r) == [type |-> "human", content |-> text, req |-> r]
AIMessage(text, r) == [type |-> "ai", content |-> text, req |-> r]

\* mutant: the question is not recorded
UpdateHistoryAnswerOnly(st, sid, question, answer, r) ==
    [st EXCEPT ![sid] = Append(@, AIMessage(answer, r))]

\* mutant: the answer is appended before the question
UpdateHistoryAnswerFirst(st, sid, question, answer, r) ==
    [st EXCEPT ![sid] = Append(Append(@, AIMessage(answer, r)), HumanMessage(question, r))]

\* history.add_user_message(question); history.add_ai_message(response.content)
UpdateHistory(st, sid, question, answer, r) ==
    [st EXCEPT ![sid] = Append(Append(@, HumanMessage(question, r)), AIMessage(answer, r))]

(***************************************************************************)
(* app/main.py: the /chat handler                                          *)
(***************************************************************************)
\* mutant: the question is not trimmed before the test
EmptyQuestionNoStrip(question) == question = <<>>

\* not question or not question.strip()
EmptyQuestion(question) == question = <<>> \/ Strip(question) = <<>>

\* k or settings.max_context_docs
TopK(k) == IF Truthy(k) THEN k.n ELSE max_context_docs

\* the document filter parsed from the form field
ParseDocuments(documents) ==
    IF Truthy(documents) /\ Strip(documents.s) # <<>>
    THEN ListOf(StripNonEmpty(Split(documents.s, ",")))
    ELSE NoFilter

(***************************************************************************)
(* State of the chat pipeline                                              *)
(***************************************************************************)
MaxRequests == 3
MaxInFlight == 2
MaxLongRequests == 5
MaxRetrieveRequests == 1

Requests == DOMAIN chat
SessionIds == {"s1", "s2"}

EmptyStore == [sid \in {} |-> <<>>]

NoResponse == [answer |-> PyNone, citations |-> <<>>]

\* a request that has not arrived yet
IdleReq ==
    [pc |-> "idle", question |-> <<>>, session_id |-> "", top_k |-> 0,
     filter_docs |-> NoFilter, docs |-> <<>>, context_text |-> <<>>,
     recent_messages |-> <<>>, history_text |-> <<>>,
     n_search |-> 0, n_llm |-> 0, status |-> 0, response |-> NoResponse,
     ranking |-> <<>>, unseen |-> FALSE, documents |-> PyNone]

\* n_search and n_llm count the external calls the request has made; ranking is
\* the similarity order the search used, unseen tells whether the session
\* was unknown when the request arrived and documents is the form field as
\* it was sent (bookkeeping, never read by an action)

\* the requests the server is handling: arrived, response not sent yet
InFlight == Cardinality({r \in Requests : chat[r].pc \notin {"idle", "closed"}})

\* the form fields a client may send, and what the model may answer
ChatQuestions == {<<>>, <<" ">>, <<" ", "q">>}
ChatKs == {PyNone, PyInt(0), PyInt(1), PyInt(2)}
ChatDocuments ==
    {PyNone, PyStr(<<>>), PyStr(<<" ">>), PyStr(<<" ", ",", " ">>), PyStr(<<"a">>),
     PyStr(<<"c", ",", " ", "b">>), PyStr(<<"a", ",", "b">>)}
Answers == {<<"y">>}

\* what the persistent collection holds when the service starts
ChunkA0 == [id |-> 1, page_content |-> <<"x">>,
            metadata |-> [source |-> PyStr(<<"a">>), page |-> PyInt(0), chunk_id |-> PyInt(0)]]
ChunkB == [id |-> 2, page_content |-> <<"x", "y">>,
           metadata |-> [source |-> PyStr(<<"b">>), chunk_id |-> PyInt(0)]]
ChunkA1 == [id |-> 3, page_content |-> <<"x", "y">>,
            metadata |-> [source |-> PyStr(<<"a">>), page |-> PyInt(0), chunk_id |-> PyInt(1)]]
ChunkN == [id |-> 4, page_content |-> <<"z">>, metadata |-> [page |-> PyInt(1)]]

\* the service has started: no session yet, limit requests to come
ChatInit(idx, limit) ==
    /\ retrieved = <<>>
    /\ citations = <<>>
    /\ cit_pc = "idle"
    /\ index = idx
    /\ store = EmptyStore
    /\ chat = [r \in 1..limit |-> IdleReq]
    /\ gen_order = [sid \in SessionIds |-> <<>>]
    /\ settings = DefaultSettings
    /\ uploads = <<>>
    /\ next_id = ChunkN.id
    /\ manage = NoManage
    /\ call = NoCall

(***************************************************************************)
(* /chat: one action per stretch of the handler between two external      *)
(* calls (the vector search, the generation call).  The handler is a       *)
(* coroutine with no await of its own, so nothing interleaves inside a     *)
(* stretch; requests interleave at the external calls.                     *)
(***************************************************************************)

\* the handler up to the call of similarity_search
ChatReceive(r, question, session_id, k, documents) ==
    /\ chat[r].pc = "idle"
    /\ \A q \in 1..(r - 1) : chat[q].pc # "idle"
    /\ InFlight < MaxInFlight
    /\ chat' = [chat EXCEPT ![r] =
           IF EmptyQuestion(question)
           THEN [IdleReq EXCEPT !.pc = "rejected", !.question = question,
                                !.session_id = session_id, !.status = 400,
                                !.unseen = session_id \notin DOMAIN store]
           ELSE [IdleReq EXCEPT !.pc = "retrieve", !.question = question,
                                !.session_id = session_id, !.top_k = TopK(k),
                                !.filter_docs = ParseDocuments(documents),
                                !.documents = documents,
                                !.n_search = 1,
                                !.unseen = session_id \notin DOMAIN store]]
    /\ UNCHANGED <<store, gen_order, index, citVars, upVars, opVars>>

\* mutant: the question is appended before the generation call
StoreQuestionFirst(st, sid, question, r) ==
    [get_history(st, sid) EXCEPT ![sid] = Append(@, HumanMessage(question, r))]

\* the store after get_history, as answer_question leaves it before llm.invoke
StoreBeforeGenerate(st, sid, question, r) == get_history(st, sid)

\* similarity_search returned: format the context and the history, call llm.invoke
SearchReturn(r, ranking) ==
    /\ chat[r].pc = "retrieve"
    /\ LET docs == retrieve_context(index, ranking, chat[r].top_k, chat[r].filter_docs)
           sid == chat[r].session_id
           st == StoreBeforeGenerate(store, sid, chat[r].question, r)
           recent == RecentMessages(st, sid)
       IN /\ store' = st
          /\ chat' = [chat EXCEPT ![r] =
                 [@ EXCEPT !.pc = "generate", !.docs = docs,
                           !.context_text = ContextText(docs),
                           !.recent_messages = recent,
                           !.history_text = HistoryText(recent),
                           !.n_llm = 1, !.ranking = ranking]]
    /\ UNCHANGED <<gen_order, index, citVars, upVars, opVars>>

\* similarity_search (or the embedding call in it) raised: the handler answers 500
SearchFail(r) ==
    /\ chat[r].pc = "retrieve"
    /\ chat' = [chat EXCEPT ![r] = [@ EXCEPT !.pc = "error", !.status = 500]]
    /\ UNCHANGED <<store, gen_order, index, citVars, upVars, opVars>>

\* llm.invoke returned: update the history, build the citations, respond
LlmReturn(r, answer) ==
    /\ chat[r].pc = "generate"
    /\ store' = UpdateHistory(store, chat[r].session_id, chat[r].question, answer, r)
    /\ gen_order' = [gen_order EXCEPT ![chat[r].session_id] = Append(@, r)]
    /\ chat' = [chat EXCEPT ![r] =
           [@ EXCEPT !.pc = "done", !.status = 200,
                     !.response = [answer |-> PyStr(answer),
                                   citations |-> build_citations(chat[r].docs)]]]
    /\ UNCHANGED <<index, citVars, upVars, opVars>>

\* mutant: the question is recorded although the generation failed
LlmFailKeepsQuestion(r) ==
    /\ chat[r].pc = "generate"
    /\ chat' = [chat EXCEPT ![r] = [@ EXCEPT !.pc = "error", !.status = 500]]
    /\ store' = [store EXCEPT ![chat[r].session_id] =
                     Append(@, HumanMessage(chat[r].question, r))]
    /\ UNCHANGED <<gen_order, index, citVars, upVars, opVars>>

\* llm.invoke raised: the handler answers 500
LlmFail(r) ==
    /\ chat[r].pc = "generate"
    /\ chat' = [chat EXCEPT ![r] = [@ EXCEPT !.pc = "error", !.status = 500]]
    /\ UNCHANGED <<store, gen_order, index, citVars, upVars, opVars>>

\* the response has been sent: the request's locals are gone
ChatClose(r) ==
    /\ chat[r].pc \in {"done", "error", "rejected"}
    /\ chat' = [chat EXCEPT ![r] = [IdleReq EXCEPT !.pc = "closed"]]
    /\ UNCHANGED <<store, gen_order, index, citVars, upVars, opVars>>

\* the steps of the chat requests, the clients' inputs drawn from the given sets
ChatNext(sessions, questions, ks, documents) ==
    \/ \E r \in Requests, question \in questions, session_id \in sessions,
          k \in ks, docs \in documents :
           ChatReceive(r, question, session_id, k, docs)
    \/ \E r \in Requests, ranking \in Rankings(Len(index)) : SearchReturn(r, ranking)
    \/ \E r \in Requests : SearchFail(r)
    \/ \E r \in Requests, answer \in Answers : LlmReturn(r, answer)
    \/ \E r \in Requests : LlmFail(r)
    \/ \E r \in Requests : ChatClose(r)

\* concurrent requests over two sessions, unfiltered
Init == ChatInit(<<ChunkB, ChunkA0>>, MaxRequests)
Next == ChatNext(SessionIds, ChatQuestions, {PyNone}, {PyNone})
Spec == Init /\ [][Next]_vars

\* a long conversation in one session
InitLong == ChatInit(<<ChunkA0>>, MaxLongRequests)
NextLong == ChatNext({"s1"}, {<<" ", "q">>}, {PyNone}, {PyNone})
SpecLong == InitLong /\ [][NextLong]_vars

\* requests with every k and every document filter, over a mixed collection
InitRetrieve ==
    \E idx \in {<<ChunkB, ChunkA0, ChunkA1>>, <<ChunkN, ChunkB, ChunkA0>>} :
        ChatInit(idx, MaxRetrieveRequests)
NextRetrieve == ChatNext({"s1"}, {<<"q">>}, ChatKs, ChatDocuments)
SpecRetrieve == InitRetrieve /\ [][NextRetrieve]_vars


(***************************************************************************)
(* app/utils/loaders.py                                                    *)
(***************************************************************************)
\* dict.update: the keys of b override those of a
DictUpdate(a, b) ==
    [key \in DOMAIN a \cup DOMAIN b |-> IF key \in DOMAIN b THEN b[key] ELSE a[key]]

\* Path(name).suffix: from the last dot, unless the dot is first or last
Suffix(name) ==
    IF \E i \in 1..Len(name) : name[i] = "."
    THEN LET i == CHOOSE i \in 1..Len(name) :
                     name[i] = "." /\ \A j \in (i + 1)..Len(name) : name[j] # "."
         IN IF 1 < i /\ i < Len(name) THEN SubSeq(name, i, Len(name)) ELSE <<>>
    ELSE <<>>

\* str.lower(), on the letters file names are made of here
LowerChar(c) == CASE c = "P" -> "p" [] c = "T" -> "t" [] OTHER -> c
Lower(str) == [i \in 1..Len(str) |-> LowerChar(str[i])]

\* what the format loader returns for a file: one Document per unit, its
\* metadata the path it was given and, for a paged format, the page
LoaderDocs(path, file) ==
    [i \in 1..Len(file.units) |->
        [page_content |-> file.units[i].page_content,
         metadata |-> IF file.units[i].paged
                      THEN [source |-> PyStr(path), page |-> PyInt(i - 1)]
                      ELSE [source |-> PyStr(path)]]]

\* mutant: the source the format loader put is kept
EnrichedMetadataLoaderSource(path_name, metadata, d, i) ==
    LET base == DictUpdate(metadata,
                    [filename |-> PyStr(path_name),
                     file_type |-> PyStr(Lower(Suffix(path_name)))])
    IN DictUpdate(DictUpdate(base, d.metadata), [chunk_id |-> PyInt(i)])

\* the metadata load_file gives unit number i (from 0) of a file
EnrichedMetadata(path_name, metadata, d, i) ==
    LET base == DictUpdate(metadata,
                    [filename |-> PyStr(path_name),
                     file_type |-> PyStr(Lower(Suffix(path_name)))])
        merged == DictUpdate(DictUpdate(base, d.metadata), [chunk_id |-> PyInt(i)])
    IN DictUpdate(merged,
           [source |-> IF "original_filename" \in DOMAIN merged
                       THEN merged["original_filename"]
                       ELSE PyStr(path_name)])

\* load_file(path, metadata), docs being what the format loader returned
load_file(path_name, metadata, docs) ==
    [i \in 1..Len(docs) |->
        [page_content |-> docs[i].page_content,
         metadata |-> EnrichedMetadata(path_name, metadata, docs[i], i - 1)]]

RECURSIVE Flatten(_)
Flatten(parts) == IF parts = <<>> THEN <<>> ELSE Head(parts) \o Flatten(Tail(parts))

\* mutant: pieces are dropped from the window for the overlap only
RECURSIVE PopWhileOverlapOnly(_, _, _, _)
PopWhileOverlapOnly(current, len, chunk_size, chunk_overlap) ==
    IF Len(Flatten(current)) > chunk_overlap
    THEN PopWhileOverlapOnly(Tail(current), len, chunk_size, chunk_overlap)
    ELSE current

\* the splitter's inner loop that drops pieces from the front of the window
RECURSIVE PopWhile(_, _, _, _)
PopWhile(current, len, chunk_size, chunk_overlap) ==
    LET total == Len(Flatten(current))
    IN IF total > chunk_overlap \/ (total + len > chunk_size /\ total > 0)
       THEN PopWhile(Tail(current), len, chunk_size, chunk_overlap)
       ELSE current

\* the window joined and stripped, appended unless it is empty
AppendJoined(out, current) ==
    IF Strip(Flatten(current)) = <<>> THEN out ELSE Append(out, Strip(Flatten(current)))

\* the splitter's merge of small pieces into chunks, the separator being ""
RECURSIVE MergeSplits(_, _, _, _, _)
MergeSplits(splits, current, out, chunk_size, chunk_overlap) ==
    IF splits = <<>> THEN AppendJoined(out, current)
    ELSE LET d == Head(splits)
             total == Len(Flatten(current))
         IN IF total + Len(d) > chunk_size /\ Len(current) > 0
            THEN MergeSplits(Tail(splits),
                     Append(PopWhile(current, Len(d), chunk_size, chunk_overlap), d),
                     AppendJoined(out, current), chunk_size, chunk_overlap)
            ELSE MergeSplits(Tail(splits), Append(current, d), out,
                             chunk_size, chunk_overlap)

\* the separators of RecursiveCharacterTextSplitter that a text of letters
\* and spaces can hold; "\n\n" and "\n", which come before them in the
\* splitter's list, are never found in such a text
Separators == <<" ", "">>

\* re.split on a one-character separator that is kept at the start of the
\* piece that follows it; empty pieces are dropped
RECURSIVE SplitKeep(_, _, _, _)
SplitKeep(text, sep, cur, out) ==
    LET flushed == IF cur = <<>> THEN out ELSE Append(out, cur)
    IN IF text = <<>> THEN flushed
       ELSE IF Head(text) = sep THEN SplitKeep(Tail(text), sep, <<sep>>, flushed)
       ELSE SplitKeep(Tail(text), sep, Append(cur, Head(text)), out)

\* the pieces of text at separator sep; at "" they are its characters
SplitPieces(text, sep) ==
    IF sep = "" THEN [i \in 1..Len(text) |-> <<text[i]>>]
    ELSE SplitKeep(text, sep, <<>>, <<>>)

\* the first separator of seps that is "" or occurs in text
SepIndex(text, seps) ==
    LET found(i) == seps[i] = "" \/ \E k \in 1..Len(text) : text[k] = seps[i]
    IN CHOOSE i \in 1..Len(seps) : found(i) /\ \A j \in 1..(i - 1) : ~found(j)

\* the splitter's loop over the pieces: the short ones are merged, a piece
\* that is not shorter than chunk_size is split at the separators that
\* remain, or is a chunk of its own when none remains
RECURSIVE SplitText(_, _, _, _)
RECURSIVE SplitLoop(_, _, _, _, _, _)
SplitLoop(splits, good, final, new_separators, chunk_size, chunk_overlap) ==
    LET merged == IF good = <<>> THEN <<>>
                  ELSE MergeSplits(good, <<>>, <<>>, chunk_size, chunk_overlap)
    IN IF splits = <<>> THEN final \o merged
       ELSE IF Len(Head(splits)) < chunk_size
       THEN SplitLoop(Tail(splits), Append(good, Head(splits)), final,
                      new_separators, chunk_size, chunk_overlap)
       ELSE SplitLoop(Tail(splits), <<>>,
                      (final \o merged)
                          \o (IF new_separators = <<>> THEN <<Head(splits)>>
                              ELSE SplitText(Head(splits), new_separators,
                                             chunk_size, chunk_overlap)),
                      new_separators, chunk_size, chunk_overlap)

\* RecursiveCharacterTextSplitter._split_text
SplitText(text, separators, chunk_size, chunk_overlap) ==
    LET i == SepIndex(text, separators)
        new_separators == IF separators[i] = "" THEN <<>>
                          ELSE SubSeq(separators, i + 1, Len(separators))
    IN SplitLoop(SplitPieces(text, separators[i]), <<>>, <<>>, new_separators,
                 chunk_size, chunk_overlap)

\* RecursiveCharacterTextSplitter.split_text
split_text(text, chunk_size, chunk_overlap) ==
    SplitText(text, Separators, chunk_size, chunk_overlap)

\* split_docs: every chunk of every document, in order, each with a copy of
\* its document's metadata
RECURSIVE split_docs(_, _, _)
split_docs(docs, chunk_size, chunk_overlap) ==
    IF docs = <<>> THEN <<>>
    ELSE LET pieces == split_text(Head(docs).page_content, chunk_size, chunk_overlap)
         IN [i \in 1..Len(pieces) |->
                [page_content |-> pieces[i], metadata |-> Head(docs).metadata]]
            \o split_docs(Tail(docs), chunk_size, chunk_overlap)

(***************************************************************************)
(* app/utils/embeddings.py                                                 *)
(***************************************************************************)
\* add_documents: the collection gives each chunk a new id and appends it
add_documents(idx, chunks, ids) ==
    idx \o [i \in 1..Len(chunks) |->
               [id |-> ids + i, page_content |-> chunks[i].page_content,
                metadata |-> chunks[i].metadata]]

(***************************************************************************)
(* app/main.py: the /upload handler                                        *)
(***************************************************************************)
MaxUploads == 1
MaxFiles == 2
MaxChunkSize == 3

Uploads == DOMAIN uploads

\* the files a client may send: a name, a size, and what the format loader
\* makes of the bytes (its units, or a failure)
FileA == [filename |-> <<"a", ".", "P">>, size |-> 7, corrupt |-> FALSE,
          units |-> <<[page_content |-> <<"a", "b", "c", "d", "e">>, paged |-> TRUE],
                      [page_content |-> <<>>, paged |-> TRUE],
                      [page_content |-> <<"f", "g">>, paged |-> TRUE]>>]
FileB == [filename |-> <<"b", ".", "t">>, size |-> 3, corrupt |-> FALSE,
          units |-> <<[page_content |-> <<"h", "i", "j">>, paged |-> FALSE]>>]
FileX == [filename |-> <<"x", ".", "p">>, size |-> 1, corrupt |-> TRUE, units |-> <<>>]
UploadFiles == {FileA, FileB, FileX}

NoUploadResponse == [indexed_files |-> <<>>, chunks |-> 0]

IdleUpload ==
    [pc |-> "idle", files |-> <<>>, i |-> 0, all_docs |-> <<>>, uploaded |-> <<>>,
     status |-> 0, error |-> "", response |-> NoUploadResponse]

\* the name of the temporary file: a generated stem and the suffix of f.filename
TmpName(filename) == <<"t", "m", "p">> \o Suffix(filename)
TmpPath(filename) == <<"/">> \o TmpName(filename)

\* f"{timestamp}_{unique_id}", one per file of one request
UploadId(u, i) == NatStr(u) \o <<"_">> \o NatStr(i)

\* file_metadata
FileMetadata(u, i, f) ==
    [original_filename |-> PyStr(f.filename),
     upload_id |-> PyStr(UploadId(u, i)),
     upload_timestamp |-> PyInt(u),
     file_size |-> PyInt(f.size)]

\* docs = load_file(tmp_path, metadata=file_metadata)
LoadedDocs(u, i, f) ==
    load_file(TmpName(f.filename), FileMetadata(u, i, f),
              LoaderDocs(TmpPath(f.filename), f))

\* mutant: the list is replaced instead of extended
ReplaceDocs(all_docs, docs) == docs

\* all_docs.extend(docs)
ExtendDocs(all_docs, docs) == all_docs \o docs

\* the service has started: the persistent collection is empty or holds a
\* chunk of an earlier run, the settings are any chunk_size > chunk_overlap >= 0
InitUpload ==
    /\ retrieved = <<>>
    /\ citations = <<>>
    /\ cit_pc = "idle"
    /\ index \in {<<>>, <<ChunkB>>}
    /\ store = EmptyStore
    /\ chat = <<>>
    /\ gen_order = [sid \in SessionIds |-> <<>>]
    /\ settings \in {[chunk_size |-> cs, chunk_overlap |-> ov] :
                        cs \in 1..MaxChunkSize, ov \in 0..(MaxChunkSize - 1)}
    /\ settings.chunk_overlap < settings.chunk_size
    /\ uploads = [u \in 1..MaxUploads |-> IdleUpload]
    /\ next_id = ChunkN.id
    /\ manage = NoManage
    /\ call = NoCall

\* the handler up to the first await of f.read()
UploadReceive(u, files) ==
    /\ uploads[u].pc = "idle"
    /\ \A v \in 1..(u - 1) : uploads[v].pc # "idle"
    /\ uploads' = [uploads EXCEPT ![u] =
           IF files = <<>>
           THEN [IdleUpload EXCEPT !.pc = "rejected", !.status = 400]
           ELSE [IdleUpload EXCEPT !.pc = "reading", !.files = files, !.i = 1]]
    /\ UNCHANGED <<index, next_id, settings, citVars, chatVars, opVars>>

\* mutant: each file's chunks are indexed as soon as the file is loaded
UploadLoadAndIndex(u) ==
    LET up == uploads[u]
        f == up.files[up.i]
        chunks == split_docs(LoadedDocs(u, up.i, f),
                             settings.chunk_size, settings.chunk_overlap)
    IN /\ up.pc = "reading"
       /\ up.i < Len(up.files)
       /\ ~f.corrupt
       /\ index' = add_documents(index, chunks, next_id)
       /\ next_id' = next_id + Len(chunks)
       /\ uploads' = [uploads EXCEPT ![u] =
              [up EXCEPT !.uploaded = Append(up.uploaded, f.filename),
                         !.i = up.i + 1]]
       /\ UNCHANGED <<settings, citVars, chatVars, opVars>>

\* f.read() returned for a file that is not the last: load it, go on to the
\* next file's read
UploadLoad(u) ==
    LET up == uploads[u]
        f == up.files[up.i]
    IN /\ up.pc = "reading"
       /\ up.i < Len(up.files)
       /\ ~f.corrupt
       /\ uploads' = [uploads EXCEPT ![u] =
              [up EXCEPT !.all_docs = ExtendDocs(up.all_docs, LoadedDocs(u, up.i, f)),
                         !.uploaded = Append(up.uploaded, f.filename),
                         !.i = up.i + 1]]
       /\ UNCHANGED <<index, next_id, settings, citVars, chatVars, opVars>>

\* f.read() returned and load_file raised: the handler answers 500
UploadLoadFail(u) ==
    LET up == uploads[u]
    IN /\ up.pc = "reading"
       /\ up.files[up.i].corrupt
       /\ uploads' = [uploads EXCEPT ![u] =
              [up EXCEPT !.pc = "error", !.status = 500, !.error = "load"]]
       /\ UNCHANGED <<index, next_id, settings, citVars, chatVars, opVars>>

\* f.read() returned for the last file: load it, split everything, index
\* the chunks and respond
UploadIndex(u) ==
    LET up == uploads[u]
        f == up.files[up.i]
        all_docs == ExtendDocs(up.all_docs, LoadedDocs(u, up.i, f))
        uploaded == Append(up.uploaded, f.filename)
        chunks == split_docs(all_docs, settings.chunk_size, settings.chunk_overlap)
    IN /\ up.pc = "reading"
       /\ up.i = Len(up.files)
       /\ ~f.corrupt
       /\ index' = add_documents(index, chunks, next_id)
       /\ next_id' = next_id + Len(chunks)
       /\ uploads' = [uploads EXCEPT ![u] =
              [up EXCEPT !.pc = "done", !.status = 200, !.all_docs = all_docs,
                         !.uploaded = uploaded,
                         !.response = [indexed_files |-> uploaded,
                                       chunks |-> Len(chunks)]]]
       /\ UNCHANGED <<settings, citVars, chatVars, opVars>>

\* as UploadIndex, but the store's add_documents raised (the embedding call
\* failed, or the store refused the batch): nothing is added, the handler
\* answers 500
UploadIndexFail(u) ==
    LET up == uploads[u]
        f == up.files[up.i]
    IN /\ up.pc = "reading"
       /\ up.i = Len(up.files)
       /\ ~f.corrupt
       /\ uploads' = [uploads EXCEPT ![u] =
              [up EXCEPT !.pc = "error", !.status = 500, !.error = "index",
                         !.all_docs = ExtendDocs(up.all_docs, LoadedDocs(u, up.i, f)),
                         !.uploaded = Append(up.uploaded, f.filename)]]
       /\ UNCHANGED <<index, next_id, settings, citVars, chatVars, opVars>>

\* the response has been sent: the request's locals are gone
UploadClose(u) ==
    /\ uploads[u].pc \in {"done", "error", "rejected"}
    /\ uploads' = [uploads EXCEPT ![u] = [IdleUpload EXCEPT !.pc = "closed"]]
    /\ UNCHANGED <<index, next_id, settings, citVars, chatVars, opVars>>

NextUpload ==
    \/ \E u \in Uploads, files \in ListsUpTo(UploadFiles, MaxFiles) : UploadReceive(u, files)
    \/ \E u \in Uploads : UploadLoad(u)
    \/ \E u \in Uploads : UploadLoadFail(u)
    \/ \E u \in Uploads : UploadIndex(u)
    \/ \E u \in Uploads : UploadIndexFail(u)
    \/ \E u \in Uploads : UploadClose(u)

SpecUpload == InitUpload /\ [][NextUpload]_vars

(***************************************************************************)
(* Inputs of the citation builder                                          *)
(***************************************************************************)
MaxDocs == 3

CitSources == {<<"a">>, <<"b">>}
CitPages == {PyNone, PyInt(0), PyInt(1)}
CitContents == {<<"x">>, <<"y">>, <<"x", "y">>}

\* metadata dicts: source and page each present or absent
CitMetas ==
    {[k \in {} |-> PyNone]}
    \cup {[source |-> PyStr(src)] : src \in CitSources}
    \cup {[page |-> p] : p \in CitPages}
    \cup {[source |-> PyStr(src), page |-> p] : src \in CitSources, p \in CitPages}

CitDocs == {[page_content |-> c, metadata |-> m] : c \in CitContents, m \in CitMetas}

InitCit ==
    /\ retrieved \in ListsUpTo(CitDocs, MaxDocs)
    /\ citations = <<>>
    /\ cit_pc = "input"
    /\ index = <<>>
    /\ store = EmptyStore
    /\ chat = [r \in 1..MaxRequests |-> IdleReq]
    /\ gen_order = [sid \in SessionIds |-> <<>>]
    /\ settings = DefaultSettings
    /\ uploads = <<>>
    /\ next_id = 0
    /\ manage = NoManage
    /\ call = NoCall

BuildCitations ==
    /\ cit_pc = "input"
    /\ citations' = build_citations(retrieved)
    /\ cit_pc' = "done"
    /\ UNCHANGED <<retrieved, index, chatVars, upVars, opVars>>

NextCit == BuildCitations

SpecCit == InitCit /\ [][NextCit]_vars

(***************************************************************************)
(* C1: the citation list holds at most one citation per (source, page)     *)
(* pair, page being the value the citation reports (None for a chunk with  *)
(* no page key, as for a chunk whose page is None).                        *)
(***************************************************************************)
C1_OnePerSourcePage ==
    cit_pc = "done" =>
        \A i, j \in 1..Len(citations) :
            (citations[i].source = citations[j].source
             /\ citations[i].page = citations[j].page) => i = j

(***************************************************************************)
(* Helpers of the chat claims                                              *)
(***************************************************************************)
\* the positions of the messages request r appended to a history
MsgsOf(h, r) == {i \in 1..Len(h) : h[i].req = r}

\* no message of request r in any session
NoTrace(st, r) == \A sid \in DOMAIN st : MsgsOf(st[sid], r) = {}

\* the requests of the messages of one type, in history order
RECURSIVE ReqsOfType(_, _)
ReqsOfType(h, type) ==
    IF h = <<>> THEN <<>>
    ELSE IF Head(h).type = type THEN <<Head(h).req>> \o ReqsOfType(Tail(h), type)
    ELSE ReqsOfType(Tail(h), type)

\* every character is white space (true of the empty string)
Blank(str) == \A i \in 1..Len(str) : str[i] \in Whitespace

Min(a, b) == IF a < b THEN a ELSE b

(***************************************************************************)
(* C2: a chat request that completed generation has appended exactly two   *)
(* messages, to its own session only: its question as a human message and, *)
(* after it, the model's answer as an ai message; they are there when the  *)
(* response is ready to be returned.                                       *)
(***************************************************************************)
C2_TwoMessagesAppended ==
    \A r \in Requests :
        chat[r].pc = "done" =>
            LET sid == chat[r].session_id
                h == Hist(store, sid)
                pos == MsgsOf(h, r)
            IN /\ Cardinality(pos) = 2
               /\ \E i, j \in pos :
                      /\ i < j
                      /\ h[i].type = "human" /\ h[i].content = chat[r].question
                      /\ h[j].type = "ai" /\ PyStr(h[j].content) = chat[r].response.answer
               /\ \A other \in DOMAIN store \ {sid} : MsgsOf(store[other], r) = {}

\* a request is done in a session that already held an earlier exchange
C2_Witness ==
    \E r \in Requests :
        /\ chat[r].pc = "done"
        /\ Len(Hist(store, chat[r].session_id)) >= 4
        /\ MsgsOf(Hist(store, chat[r].session_id), r) # {}

(***************************************************************************)
(* C3: when the search or the generation call of a chat request fails, the *)
(* request ends in an error (status 500) with no answer and no citations,  *)
(* the failing step changes no session's messages and no message of the    *)
(* request is in any session.                                              *)
(***************************************************************************)
C3_FailureChangesNoHistory ==
    [][\A r \in Requests :
          (chat[r].pc # "error" /\ chat'[r].pc = "error") =>
              /\ chat'[r].status = 500
              /\ chat'[r].response = NoResponse
              /\ \A sid \in SessionIds : Hist(store', sid) = Hist(store, sid)
              /\ NoTrace(store', r)]_vars

\* one request failed in generation and one in retrieval, in a session with history
C3_Witness ==
    \E r1, r2 \in Requests :
        /\ chat[r1].pc = "error" /\ chat[r1].n_llm = 1
        /\ chat[r2].pc = "error" /\ chat[r2].n_llm = 0
        /\ Len(Hist(store, chat[r1].session_id)) > 0
        /\ Len(Hist(store, chat[r2].session_id)) > 0

(***************************************************************************)
(* C4: when a request formats the history, what it renders is exactly the  *)
(* last min(6, n) of the n messages its session holds, in their order,     *)
(* none of them the request's own question; the session's messages,        *)
(* those older than the last 6 included, stay stored.                      *)
(***************************************************************************)
C4_HistoryWindow ==
    [][\A r \in Requests :
          (chat[r].pc = "retrieve" /\ chat'[r].pc = "generate") =>
              LET sid == chat[r].session_id
                  h == Hist(store, sid)
                  n == Len(h)
                  m == Min(6, n)
                  shown == chat'[r].recent_messages
              IN /\ Len(shown) = m
                 /\ \A i \in 1..m : shown[i] = h[n - m + i]
                 /\ \A i \in 1..m : shown[i].req # r
                 /\ chat'[r].history_text =
                        Join([i \in 1..m |->
                                 (IF h[n - m + i].type = "human"
                                  THEN <<"H", "U", "M", "A", "N">> ELSE <<"A", "I">>)
                                 \o <<":", " ">> \o h[n - m + i].content],
                             <<"\n">>)
                 /\ Hist(store', sid) = h]_vars

\* a request rendered 6 messages of a session that holds 8
C4_Witness ==
    \E r \in Requests :
        /\ chat[r].pc = "generate"
        /\ Len(chat[r].recent_messages) = 6
        /\ Len(Hist(store, chat[r].session_id)) = 8
        /\ chat[r].recent_messages[1] = Hist(store, chat[r].session_id)[3]

(***************************************************************************)
(* C6: a chat request whose question is empty or white space only is       *)
(* rejected (status 400) in the step in which it arrives: it makes no      *)
(* search and no generation call, creates no session and changes no        *)
(* history.                                                                *)
(***************************************************************************)
C6_EmptyQuestionRejected ==
    [][\A r \in Requests :
          (chat[r].pc = "idle" /\ chat'[r].pc # "idle" /\ Blank(chat'[r].question)) =>
              /\ chat'[r].pc = "rejected"
              /\ chat'[r].status = 400
              /\ chat'[r].n_search = 0 /\ chat'[r].n_llm = 0
              /\ chat'[r].response = NoResponse
              /\ store' = store]_vars

\* a white-space question was rejected for a session not yet created, while
\* another session holds messages
C6_Witness ==
    \E r \in Requests :
        /\ chat[r].pc = "rejected"
        /\ chat[r].question = <<" ">>
        /\ chat[r].session_id \notin DOMAIN store
        /\ \E sid \in DOMAIN store : Len(store[sid]) > 0

(***************************************************************************)
(* C7: in every session the questions, and the answers, appear in the      *)
(* order in which their requests completed the generation call, whatever   *)
(* the order in which the requests arrived.                                *)
(***************************************************************************)
C7_HistoryInGenerateOrder ==
    \A sid \in SessionIds :
        /\ ReqsOfType(Hist(store, sid), "human") = gen_order[sid]
        /\ ReqsOfType(Hist(store, sid), "ai") = gen_order[sid]

\* two requests of one session overlapped and the later arrival is first in
\* the history
C7_Witness ==
    \E sid \in DOMAIN store :
        \E i, j \in 1..Len(store[sid]) :
            /\ i < j
            /\ store[sid][i].req > store[sid][j].req

(***************************************************************************)
(* C8: no append is lost: a session's history holds two messages for each  *)
(* request of the session that completed generation, also when several     *)
(* requests arrived for the session before it existed.                     *)
(***************************************************************************)
C8_NoLostAppend ==
    \A sid \in SessionIds : Len(Hist(store, sid)) = 2 * Len(gen_order[sid])

\* two requests that both arrived for a session not yet known are done
C8_Witness ==
    \E r1, r2 \in Requests :
        /\ r1 # r2
        /\ chat[r1].pc = "done" /\ chat[r2].pc = "done"
        /\ chat[r1].session_id = chat[r2].session_id
        /\ chat[r1].unseen /\ chat[r2].unseen
        /\ Len(Hist(store, chat[r1].session_id)) = 4

(***************************************************************************)
(* C5: with a non-empty document filter, every chunk a chat request        *)
(* retrieved, and so every citation it returns, has a source that is one   *)
(* of the filter's names, whatever the similarity ranking of the stored    *)
(* chunks.                                                                 *)
(***************************************************************************)
InFilter(meta, names) ==
    /\ "source" \in DOMAIN meta
    /\ \E j \in 1..Len(names) : PyStr(names[j]) = meta["source"]

C5_FilterRestrictsRetrieval ==
    \A r \in Requests :
        (chat[r].filter_docs.ty = "list" /\ chat[r].filter_docs.items # <<>>) =>
            /\ \A i \in 1..Len(chat[r].docs) :
                   InFilter(chat[r].docs[i].metadata, chat[r].filter_docs.items)
            /\ \A i \in 1..Len(chat[r].response.citations) :
                   \E j \in 1..Len(chat[r].filter_docs.items) :
                       PyStr(chat[r].filter_docs.items[j]) = chat[r].response.citations[i].source

\* a filtered request returned citations although the most similar chunk
\* belongs to a document outside the filter
C5_Witness ==
    \E r \in Requests :
        /\ chat[r].pc = "done"
        /\ chat[r].filter_docs = ListOf(<< <<"a">> >>)
        /\ chat[r].response.citations # <<>>
        /\ ~InFilter(index[chat[r].ranking[1]].metadata, << <<"a">> >>)

(***************************************************************************)
(* Helpers of the upload claims                                            *)
(***************************************************************************)
\* the chunk was indexed for file i of upload request u
OfUpload(c, u, i) ==
    /\ "upload_id" \in DOMAIN c.metadata
    /\ c.metadata["upload_id"] = PyStr(UploadId(u, i))

\* the number of chunks the units of a file are split into
RECURSIVE UnitChunks(_, _)
UnitChunks(units, st) ==
    IF units = <<>> THEN 0
    ELSE Len(split_text(Head(units).page_content, st.chunk_size, st.chunk_overlap))
         + UnitChunks(Tail(units), st)

RECURSIVE FileChunks(_, _)
FileChunks(files, st) ==
    IF files = <<>> THEN 0
    ELSE UnitChunks(Head(files).units, st) + FileChunks(Tail(files), st)

(***************************************************************************)
(* C9: when loading a file of an upload batch fails, the upload answers    *)
(* with an error (status 500, no result), the failing step leaves the      *)
(* index as it was and the index holds no chunk of any file of the         *)
(* request, the files parsed before the failing one included.              *)
(***************************************************************************)
C9_LoadFailureAddsNothing ==
    [][\A u \in Uploads :
          (uploads[u].pc # "error" /\ uploads'[u].pc = "error"
           /\ uploads'[u].error = "load") =>
              /\ uploads'[u].status = 500
              /\ uploads'[u].response = NoUploadResponse
              /\ index' = index
              /\ \A j \in 1..Len(index') : \A i \in 1..Len(uploads'[u].files) :
                     ~OfUpload(index'[j], u, i)]_vars

\* the second file of a batch failed to load after the first was parsed,
\* while the index holds a chunk of an earlier upload
C9_Witness ==
    \E u \in Uploads :
        /\ uploads[u].pc = "error" /\ uploads[u].error = "load"
        /\ uploads[u].i = 2
        /\ uploads[u].all_docs # <<>>
        /\ index # <<>>

(***************************************************************************)
(* C10: a successful upload of files f1..fn returns indexed_files =        *)
(* [f1, ..., fn] in upload order and chunks = N, the sum over the files'   *)
(* text units of the number of chunks each unit is split into, and the     *)
(* step that indexes them appends exactly N chunks to the index.           *)
(***************************************************************************)
C10_UploadCounts ==
    [][\A u \in Uploads :
          (uploads[u].pc # "done" /\ uploads'[u].pc = "done") =>
              LET files == uploads[u].files
                  N == FileChunks(files, settings)
              IN /\ uploads'[u].status = 200
                 /\ uploads'[u].response.indexed_files =
                        [i \in 1..Len(files) |-> files[i].filename]
                 /\ uploads'[u].response.chunks = N
                 /\ Len(index') = Len(index) + N
                 /\ SubSeq(index', 1, Len(index)) = index
                 /\ \A j \in (Len(index) + 1)..Len(index') :
                        \E i \in 1..Len(files) : OfUpload(index'[j], u, i)]_vars

\* a batch of two files, the first of three units (one blank), gave at least four chunks
\* and was added to an index that held chunks already
C10_Witness ==
    \E u \in Uploads :
        /\ uploads[u].pc = "done"
        /\ Len(uploads[u].files) = 2
        /\ uploads[u].files[1] = FileA
        /\ uploads[u].response.chunks >= 4
        /\ Len(index) > uploads[u].response.chunks

(***************************************************************************)
(* app/main.py: the /documents handlers (list, delete one, delete all).    *)
(* None of them awaits anything, so each runs as one step.                 *)
(***************************************************************************)
MaxStored == 3

NotAvailable == PyStr(<<"N", "/", "A">>)
Unknown == PyStr(<<"U", "n", "k", "n", "o", "w", "n">>)

\* mutant: the name of a chunk is its source, original_filename is ignored
DisplayNameSourceOnly(metadata, default) == MetaGet(metadata, "source", default)

\* metadata.get('original_filename', metadata.get('source', default))
DisplayName(metadata, default) ==
    MetaGet(metadata, "original_filename", MetaGet(metadata, "source", default))

\* collection.delete(ids=ids)
CollectionDelete(idx, ids) == SelectSeq(idx, LAMBDA c : c.id \notin ids)

\* the chunks delete_document selects, in the order of collection.get()
DeleteMatches(idx, filename) ==
    SelectSeq(idx, LAMBDA c : DisplayName(c.metadata, PyStr(<<>>)) = PyStr(filename))

\* mutant: a name that matches nothing is answered as a deletion of nothing
DeleteResponseZeroOk(filename, matches) ==
    [NoManage EXCEPT !.kind = "delete", !.filename = filename,
                     !.status = 200, !.chunks_deleted = Len(matches)]

\* delete_document's answer: 404 when ids_to_delete is empty
DeleteResponse(filename, matches) ==
    IF matches = <<>>
    THEN [NoManage EXCEPT !.kind = "delete", !.filename = filename, !.status = 404]
    ELSE [NoManage EXCEPT !.kind = "delete", !.filename = filename,
                          !.status = 200, !.chunks_deleted = Len(matches)]

\* mutant: the first stored chunk is not among the ids to delete
AllIdsButFirst(idx) == {idx[i].id : i \in 2..Len(idx)}

\* result['ids'] of collection.get()
AllIds(idx) == {idx[i].id : i \in 1..Len(idx)}

\* one iteration of list_documents' loop over result['metadatas']
ListStep(documents, metadata) ==
    LET filename == DisplayName(metadata, Unknown)
        i == KeyIndex(documents, filename)
        entry == IF i = 0
                 THEN [filename |-> filename,
                       upload_id |-> MetaGet(metadata, "upload_id", NotAvailable),
                       upload_timestamp |-> MetaGet(metadata, "upload_timestamp", NotAvailable),
                       file_type |-> MetaGet(metadata, "file_type", NotAvailable),
                       file_size |-> MetaGet(metadata, "file_size", PyInt(0)),
                       chunks |-> 0]
                 ELSE documents[i].val
    IN DictSet(documents, filename, [entry EXCEPT !.chunks = entry.chunks + 1])

RECURSIVE ListLoop(_, _)
ListLoop(documents, idx) ==
    IF idx = <<>> THEN documents
    ELSE ListLoop(ListStep(documents, Head(idx).metadata), Tail(idx))

\* list_documents' answer
ListResponse(idx) ==
    LET documents == ListLoop(<<>>, idx)
    IN [NoManage EXCEPT !.kind = "list", !.status = 200,
                        !.total_documents = Len(documents),
                        !.total_chunks = Len(idx),
                        !.documents = [i \in 1..Len(documents) |-> documents[i].val]]

\* the metadata of the chunks a collection may hold: chunks of an upload
\* (original_filename and source agree), chunks whose source is another
\* name than their original_filename, chunks indexed without
\* original_filename, and chunks with neither key
StoredMetas ==
    {[original_filename |-> PyStr(<<"a">>), source |-> PyStr(<<"a">>),
      upload_id |-> PyStr(<<"1", "_", "1">>), file_type |-> PyStr(<<".", "p">>)],
     [original_filename |-> PyStr(<<"a">>), source |-> PyStr(<<"b">>)],
     [source |-> PyStr(<<"b">>), file_size |-> PyInt(3)],
     [source |-> PyStr(<<"a">>)],
     [page |-> PyInt(0)]}

\* the names a client may ask to delete
DeleteNames == {<<"a">>, <<"b">>, <<"c">>}

\* a collection holding chunks of the metadata ms, with ids 1, 2, ...
StoredIndex(ms) ==
    [i \in 1..Len(ms) |-> [id |-> i, page_content |-> <<"x">>, metadata |-> ms[i]]]

InitDocs ==
    /\ retrieved = <<>>
    /\ citations = <<>>
    /\ cit_pc = "idle"
    /\ index \in {StoredIndex(ms) : ms \in ListsUpTo(StoredMetas, MaxStored)}
    /\ store = EmptyStore
    /\ chat = <<>>
    /\ gen_order = [sid \in SessionIds |-> <<>>]
    /\ settings = DefaultSettings
    /\ uploads = <<>>
    /\ next_id = Len(index)
    /\ manage = NoManage
    /\ call = NoCall

\* the response of a request, with the note of the request it came after
Answered(response) ==
    [response EXCEPT !.after = [kind |-> manage.kind, status |-> manage.status,
                                chunks_deleted |-> manage.chunks_deleted]]

\* GET /documents
ListDocuments ==
    /\ manage' = Answered(ListResponse(index))
    /\ UNCHANGED <<index, call, citVars, chatVars, upVars>>

\* DELETE /documents/{filename}
DeleteDocument(filename) ==
    LET matches == DeleteMatches(index, filename)
    IN /\ manage' = Answered(DeleteResponse(filename, matches))
       /\ index' = IF matches = <<>> THEN index
                   ELSE CollectionDelete(index, AllIds(matches))
       /\ UNCHANGED <<call, citVars, chatVars, upVars>>

\* DELETE /documents
DeleteAllDocuments ==
    /\ manage' = Answered([NoManage EXCEPT !.kind = "delete_all", !.status = 200,
                                           !.chunks_deleted = Len(index)])
    /\ index' = IF index # <<>> THEN CollectionDelete(index, AllIds(index)) ELSE index
    /\ UNCHANGED <<call, citVars, chatVars, upVars>>

\* collection.get() raised in one of the three handlers: it answers 500
ManageFail(kind, filename) ==
    /\ manage' = Answered([NoManage EXCEPT !.kind = kind, !.filename = filename,
                                           !.status = 500])
    /\ UNCHANGED <<index, call, citVars, chatVars, upVars>>

NextDocs ==
    \/ ListDocuments
    \/ \E filename \in DeleteNames : DeleteDocument(filename)
    \/ DeleteAllDocuments
    \/ ManageFail("list", <<>>)
    \/ \E filename \in DeleteNames : ManageFail("delete", filename)
    \/ ManageFail("delete_all", <<>>)

SpecDocs == InitDocs /\ [][NextDocs]_vars

(***************************************************************************)
(* Helpers of the /documents claims                                        *)
(***************************************************************************)
\* chunk c goes by the name X: its original_filename is X, or it has no
\* original_filename and its source is X
HasName(c, X) ==
    IF "original_filename" \in DOMAIN c.metadata
    THEN c.metadata["original_filename"] = PyStr(X)
    ELSE "source" \in DOMAIN c.metadata /\ c.metadata["source"] = PyStr(X)

Named(idx, X) == {i \in 1..Len(idx) : HasName(idx[i], X)}

(***************************************************************************)
(* C11: a successful delete-by-name with name X removes every stored chunk *)
(* whose display name (original_filename, or source when original_filename *)
(* is absent) equals X, reports the number removed, and leaves every other *)
(* stored chunk unchanged and in place.                                    *)
(***************************************************************************)
C11_DeleteByName ==
    [][(manage'.kind = "delete" /\ manage'.status = 200) =>
          LET X == manage'.filename
          IN /\ index' = SelectSeq(index, LAMBDA c : ~HasName(c, X))
             /\ manage'.chunks_deleted = Cardinality(Named(index, X))
             /\ manage'.chunks_deleted = Len(index) - Len(index')]_vars

\* two chunks named b were deleted; a chunk whose source is b but whose
\* original_filename is another name is still stored
C11_Witness ==
    /\ manage.kind = "delete" /\ manage.status = 200
    /\ manage.filename = <<"b">>
    /\ manage.chunks_deleted = 2
    /\ \E i \in 1..Len(index) :
           /\ MetaGet(index[i].metadata, "source", PyNone) = PyStr(<<"b">>)
           /\ ~HasName(index[i], <<"b">>)

(***************************************************************************)
(* C12: delete-by-name for a name that matches no stored chunk answers     *)
(* with the not-found error 404, never with a success result (status 200,  *)
(* zero chunks deleted), and leaves the index unchanged; a name that       *)
(* matches a chunk is never answered 404.                                  *)
(***************************************************************************)
C12_DeleteNotFound ==
    [][(manage'.kind = "delete" /\ manage'.status # 500) =>
          LET X == manage'.filename
          IN /\ manage'.status \in {200, 404}
             /\ (Named(index, X) = {}) <=> (manage'.status = 404)
             /\ manage'.status = 404 => (index' = index /\ manage'.chunks_deleted = 0)]_vars

\* not found, although a stored chunk has the name as its source (its
\* original_filename is another name)
C12_Witness ==
    /\ manage.kind = "delete" /\ manage.status = 404
    /\ \E i \in 1..Len(index) :
           MetaGet(index[i].metadata, "source", PyNone) = PyStr(manage.filename)

(***************************************************************************)
(* C13: delete-all answers with a success result whose chunks_deleted is   *)
(* the number of chunks stored before it (0 on an empty index, no error)   *)
(* and leaves the index empty; a listing taken right after a delete-all    *)
(* shows zero documents and zero chunks.                                   *)
(***************************************************************************)
C13_DeleteAll ==
    [][/\ (manage'.kind = "delete_all" /\ manage'.status # 500) =>
             /\ manage'.status = 200
             /\ manage'.chunks_deleted = Len(index)
             /\ index' = <<>>
       /\ (manage'.kind = "list" /\ manage'.status = 200
           /\ manage'.after.kind = "delete_all" /\ manage'.after.status = 200) =>
             /\ manage'.total_documents = 0
             /\ manage'.total_chunks = 0
             /\ manage'.documents = <<>>]_vars

\* a listing taken right after a delete-all that removed three chunks
C13_Witness ==
    /\ manage.kind = "list" /\ manage.status = 200
    /\ manage.after.kind = "delete_all" /\ manage.after.status = 200
    /\ manage.after.chunks_deleted = MaxStored
    /\ manage.total_documents = 0 /\ manage.total_chunks = 0

(***************************************************************************)
(* build_citations on chunks around the snippet limit: contents of 1, 240  *)
(* and 241 characters, chunks that share a source and page, chunks with    *)
(* no source.  Each chunk's chunk_id is its position in the retrieved      *)
(* list, so that a citation tells which chunk it was built from.           *)
(***************************************************************************)
MaxCitDocs == 3

Text(n, ch) == [i \in 1..n |-> ch]

SnipContents ==
    {<<"x">>, Text(SnippetLen, "x"), Text(SnippetLen + 1, "x"), Text(SnippetLen + 1, "y")}

SnipMetas ==
    {[source |-> PyStr(<<"a">>), page |-> PyInt(0)],
     [source |-> PyStr(<<"b">>)],
     [page |-> PyInt(0)]}

SnipDocs == {[page_content |-> c, metadata |-> m] : c \in SnipContents, m \in SnipMetas}

\* the chunks of l, each with its position as chunk_id
Numbered(l) ==
    [i \in 1..Len(l) |->
        [page_content |-> l[i].page_content,
         metadata |-> DictUpdate(l[i].metadata, [chunk_id |-> PyInt(i)])]]

InitSnippet ==
    /\ retrieved \in {Numbered(l) : l \in ListsUpTo(SnipDocs, MaxCitDocs)}
    /\ citations = <<>>
    /\ cit_pc = "input"
    /\ index = <<>>
    /\ store = EmptyStore
    /\ chat = <<>>
    /\ gen_order = [sid \in SessionIds |-> <<>>]
    /\ settings = DefaultSettings
    /\ uploads = <<>>
    /\ next_id = 0
    /\ manage = NoManage
    /\ call = NoCall

SpecSnippet == InitSnippet /\ [][NextCit]_vars

(***************************************************************************)
(* Helpers of the citation claims (under SpecSnippet, where pages are      *)
(* integers or absent)                                                     *)
(***************************************************************************)
\* the positions of the retrieved chunks that have a source
Cited == {i \in 1..Len(retrieved) : Truthy(MetaGet(retrieved[i].metadata, "source", PyNone))}

\* chunks i and j have the same source and the same page, or no page both
SamePair(i, j) ==
    LET mi == retrieved[i].metadata
        mj == retrieved[j].metadata
    IN /\ mi["source"] = mj["source"]
       /\ ("page" \in DOMAIN mi) = ("page" \in DOMAIN mj)
       /\ "page" \in DOMAIN mi => mi["page"] = mj["page"]

\* chunk j is the longest of its (source, page), the first of the longest
IsWinner(j) ==
    /\ j \in Cited
    /\ \A k \in Cited : SamePair(j, k) =>
           \/ Len(retrieved[k].page_content) < Len(retrieved[j].page_content)
           \/ Len(retrieved[k].page_content) = Len(retrieved[j].page_content) /\ k >= j

\* the first position at which the (source, page) of chunk i appears
FirstSeen(i) == CHOOSE k \in Cited : SamePair(i, k) /\ \A l \in Cited : SamePair(i, l) => k <= l

\* the position of the chunk citation c was built from
BuiltFrom(c) == c.chunk_id.n

(***************************************************************************)
(* C14: when several retrieved chunks share one (source, page), the        *)
(* citation for it is built from the chunk with the longest raw content,   *)
(* and among chunks of equal longest length from the first in the          *)
(* retrieved list: every citation is built from such a chunk, and each     *)
(* such chunk has exactly one citation.                                    *)
(***************************************************************************)
C14_LongestFirstWins ==
    cit_pc = "done" =>
        /\ \A n \in 1..Len(citations) : IsWinner(BuiltFrom(citations[n]))
        /\ \A j \in Cited : IsWinner(j) =>
               Cardinality({n \in 1..Len(citations) : BuiltFrom(citations[n]) = j}) = 1

\* three chunks of one (source, page): a short one, then two of 241
\* characters and different content; the citation is built from the second
C14_Witness ==
    /\ cit_pc = "done"
    /\ Len(retrieved) = 3
    /\ Cited = {1, 2, 3} /\ SamePair(1, 2) /\ SamePair(2, 3)
    /\ Len(retrieved[1].page_content) < Len(retrieved[2].page_content)
    /\ Len(retrieved[2].page_content) = Len(retrieved[3].page_content)
    /\ retrieved[2].page_content # retrieved[3].page_content
    /\ Len(citations) = 1 /\ BuiltFrom(citations[1]) = 2

(***************************************************************************)
(* C15: the citations are ordered by the first position in the retrieved   *)
(* list at which their (source, page) appears, also when a later, longer   *)
(* chunk replaced the first one seen.                                      *)
(***************************************************************************)
C15_FirstSeenOrder ==
    cit_pc = "done" =>
        \A m, n \in 1..Len(citations) :
            m < n => FirstSeen(BuiltFrom(citations[m])) < FirstSeen(BuiltFrom(citations[n]))

\* the first citation is built from the third chunk, which replaced the
\* first; the second citation is built from the chunk in between
C15_Witness ==
    /\ cit_pc = "done"
    /\ Len(citations) = 2
    /\ BuiltFrom(citations[1]) = 3
    /\ BuiltFrom(citations[2]) = 2
    /\ FirstSeen(3) = 1

(***************************************************************************)
(* C16: each citation's snippet is the full content of the chunk it was    *)
(* built from when that content has at most 240 characters, and otherwise  *)
(* its first 240 characters followed by one ellipsis marker.               *)
(***************************************************************************)
C16_SnippetTruncation ==
    cit_pc = "done" =>
        \A n \in 1..Len(citations) :
            LET content == retrieved[BuiltFrom(citations[n])].page_content
                snippet == citations[n].snippet
            IN IF Len(content) <= 240
               THEN snippet = content
               ELSE /\ Len(snippet) = 241
                    /\ SubSeq(snippet, 1, 240) = SubSeq(content, 1, 240)
                    /\ snippet[241] = "..."

\* one citation of a content of exactly 240 characters, kept whole, and one
\* of 241 characters, cut, whose chunk replaced a shorter one
C16_Witness ==
    /\ cit_pc = "done"
    /\ \E n \in 1..Len(citations) :
           /\ Len(retrieved[BuiltFrom(citations[n])].page_content) = 240
           /\ Len(citations[n].snippet) = 240
    /\ \E n \in 1..Len(citations) :
           /\ Len(retrieved[BuiltFrom(citations[n])].page_content) = 241
           /\ Len(citations[n].snippet) = 241
           /\ FirstSeen(BuiltFrom(citations[n])) < BuiltFrom(citations[n])

(***************************************************************************)
(* C17: every chunk an upload indexes has as source the original filename  *)
(* of the uploaded file it comes from, and neither the name nor the path   *)
(* of the temporary file it was parsed from, which is what the format      *)
(* loader put as source.                                                   *)
(***************************************************************************)
C17_SourceIsOriginalFilename ==
    [][\A u \in Uploads :
          (uploads[u].pc # "done" /\ uploads'[u].pc = "done") =>
              LET files == uploads[u].files
              IN \A j \in (Len(index) + 1)..Len(index') :
                     \E i \in 1..Len(files) :
                         /\ OfUpload(index'[j], u, i)
                         /\ index'[j].metadata["source"] = PyStr(files[i].filename)
                         /\ index'[j].metadata["source"] # PyStr(TmpName(files[i].filename))
                         /\ index'[j].metadata["source"] # PyStr(TmpPath(files[i].filename))]_vars

\* an upload of two files is indexed: chunks of a paged file and of a text
\* file, each under its own original filename
C17_Witness ==
    \E u \in Uploads :
        /\ uploads[u].pc = "done"
        /\ Len(uploads[u].files) = 2
        /\ \E j \in 1..Len(index) :
               /\ OfUpload(index[j], u, 1)
               /\ "page" \in DOMAIN index[j].metadata
               /\ index[j].metadata["source"] = PyStr(FileA.filename)
        /\ \E j \in 1..Len(index) :
               /\ OfUpload(index[j], u, 2)
               /\ index[j].metadata["source"] = PyStr(FileB.filename)

\* for each chunk split from docs, its ordinal (from 0) among the chunks of
\* its own text unit
RECURSIVE Ordinals(_, _)
Ordinals(docs, st) ==
    IF docs = <<>> THEN <<>>
    ELSE LET n == Len(split_text(Head(docs).page_content, st.chunk_size, st.chunk_overlap))
         IN [k \in 1..n |-> k - 1] \o Ordinals(Tail(docs), st)

(***************************************************************************)
(* C20: every chunk stored by an upload carries a chunk_id equal to its    *)
(* ordinal position among the chunks split from its parent text unit (so   *)
(* two chunks of one unit have different chunk_id values).                 *)
(***************************************************************************)
C20_ChunkIdIsOrdinal ==
    [][\A u \in Uploads :
          (uploads[u].pc # "done" /\ uploads'[u].pc = "done") =>
              LET ord == Ordinals(uploads'[u].all_docs, settings)
              IN \A k \in 1..Len(ord) :
                     index'[Len(index) + k].metadata["chunk_id"] = PyInt(ord[k])]_vars

(***************************************************************************)
(* split_docs on one text unit of letters and spaces, for every            *)
(* chunk_size > chunk_overlap >= 0 up to MaxChunkSize                      *)
(***************************************************************************)
MaxTextLen == 5

SplitChars == {"a", "b", " "}

SplitTexts == ListsUpTo(SplitChars, MaxTextLen)

InitSplit ==
    /\ retrieved = <<>>
    /\ citations = <<>>
    /\ cit_pc = "idle"
    /\ index = <<>>
    /\ store = EmptyStore
    /\ chat = <<>>
    /\ gen_order = [sid \in SessionIds |-> <<>>]
    /\ settings \in {[chunk_size |-> cs, chunk_overlap |-> ov] :
                        cs \in 1..MaxChunkSize, ov \in 0..(MaxChunkSize - 1)}
    /\ settings.chunk_overlap < settings.chunk_size
    /\ uploads = <<>>
    /\ next_id = 0
    /\ manage = NoManage
    /\ call \in {[NoCall EXCEPT !.pc = "input",
                                !.docs = <<[page_content |-> t,
                                            metadata |-> [chunk_id |-> PyInt(0)]]>>] :
                    t \in SplitTexts}

\* chunks = split_docs(all_docs, settings.chunk_size, settings.chunk_overlap)
SplitDocs ==
    /\ call.pc = "input"
    /\ call' = [call EXCEPT !.pc = "done",
                            !.result = split_docs(call.docs, settings.chunk_size,
                                                  settings.chunk_overlap)]
    /\ UNCHANGED <<index, manage, citVars, chatVars, upVars>>

NextSplit == SplitDocs

SpecSplit == InitSplit /\ [][NextSplit]_vars

(***************************************************************************)
(* C18: for all chunk_size > chunk_overlap >= 0 and every text unit, every *)
(* chunk produced by split_docs has at most chunk_size characters.         *)
(***************************************************************************)
C18_ChunkLength ==
    call.pc = "done" =>
        \A k \in 1..Len(call.result) :
            Len(call.result[k].page_content) <= settings.chunk_size

\* a text with a space in it, longer than chunk_size, is split with an
\* overlap into several chunks, one of them of exactly chunk_size characters
C18_Witness ==
    /\ call.pc = "done"
    /\ settings.chunk_overlap > 0
    /\ Len(call.docs[1].page_content) > settings.chunk_size
    /\ \E k \in 1..Len(call.docs[1].page_content) : call.docs[1].page_content[k] = " "
    /\ Len(call.result) >= 2
    /\ \E k \in 1..Len(call.result) :
           Len(call.result[k].page_content) = settings.chunk_size

(***************************************************************************)
(* load_file on its own: a path, the caller's metadata and the documents   *)
(* the format loader returned, whose metadata is whatever the loader (and, *)
(* for a PDF, the file's own information dictionary) put there             *)
(***************************************************************************)
MaxUnits == 2

EmptyDict == [key \in {} |-> PyNone]

LoadPaths == {<<"t", ".", "P">>, <<"n">>}

\* metadata=None (taken as {}), the metadata upload passes, and a caller
\* that names keys load_file computes
CallerMetas ==
    {EmptyDict,
     [original_filename |-> PyStr(<<"o">>), upload_id |-> PyStr(<<"1", "_", "1">>)],
     [original_filename |-> PyStr(<<"o">>), filename |-> PyStr(<<"c">>),
      source |-> PyStr(<<"c">>), chunk_id |-> PyInt(9), page |-> PyInt(5)]}

LoaderMetas ==
    {[source |-> PyStr(<<"/", "t">>)],
     [source |-> PyStr(<<"/", "t">>), page |-> PyInt(0)],
     [source |-> PyStr(<<"/", "t">>), filename |-> PyStr(<<"l">>)],
     [source |-> PyStr(<<"/", "t">>), file_type |-> PyStr(<<".", "l">>),
      chunk_id |-> PyInt(7)]}

LoaderUnits == {[page_content |-> <<"x">>, metadata |-> m] : m \in LoaderMetas}

InitLoad ==
    /\ retrieved = <<>>
    /\ citations = <<>>
    /\ cit_pc = "idle"
    /\ index = <<>>
    /\ store = EmptyStore
    /\ chat = <<>>
    /\ gen_order = [sid \in SessionIds |-> <<>>]
    /\ settings = DefaultSettings
    /\ uploads = <<>>
    /\ next_id = 0
    /\ manage = NoManage
    /\ call \in {[NoCall EXCEPT !.pc = "input", !.path_name = p, !.metadata = md,
                                !.docs = ds] :
                    p \in LoadPaths, md \in CallerMetas,
                    ds \in ListsUpTo(LoaderUnits, MaxUnits)}

\* docs = load_file(path, metadata)
LoadFile ==
    /\ call.pc = "input"
    /\ call' = [call EXCEPT !.pc = "done",
                            !.result = load_file(call.path_name, call.metadata, call.docs)]
    /\ UNCHANGED <<index, manage, citVars, chatVars, upVars>>

NextLoad == LoadFile

SpecLoad == InitLoad /\ [][NextLoad]_vars

\* the keys load_file computes
ComputedKeys == {"filename", "file_type", "chunk_id", "source"}

(***************************************************************************)
(* C19: for every text unit produced by load_file, the computed fields     *)
(* filename (the path's name), file_type (its lowercased suffix), chunk_id *)
(* (the unit's ordinal) and source (original_filename when present, else   *)
(* the path's name) hold their computed values whatever the caller or the  *)
(* loader supplied for these keys; any other key holds the loader's value  *)
(* when the loader supplied one, and else the caller's.                    *)
(***************************************************************************)
C19_MetadataPrecedence ==
    call.pc = "done" =>
        \A i \in 1..Len(call.result) :
            LET md == call.result[i].metadata
                loader == call.docs[i].metadata
                caller == call.metadata
            IN /\ md["filename"] = PyStr(call.path_name)
               /\ md["file_type"] = PyStr(Lower(Suffix(call.path_name)))
               /\ md["chunk_id"] = PyInt(i - 1)
               /\ md["source"] = IF "original_filename" \in DOMAIN md
                                 THEN md["original_filename"]
                                 ELSE PyStr(call.path_name)
               /\ \A key \in DOMAIN loader \ ComputedKeys : md[key] = loader[key]
               /\ \A key \in DOMAIN caller \ (DOMAIN loader \cup ComputedKeys) :
                      md[key] = caller[key]

(***************************************************************************)
(* Helpers of the document-filter claim                                    *)
(***************************************************************************)
\* the positions that bound the entries of a comma-separated text
Cuts(text) == {0, Len(text) + 1} \cup {i \in 1..Len(text) : text[i] = ","}

\* the text without its leading and trailing white space
Trimmed(text) ==
    LET inked == {i \in 1..Len(text) : text[i] \notin Whitespace}
    IN IF inked = {} THEN <<>>
       ELSE SubSeq(text, CHOOSE i \in inked : \A j \in inked : i <= j,
                         CHOOSE i \in inked : \A j \in inked : j <= i)

\* the names a documents parameter gives: its entries between commas,
\* trimmed, the empty ones left out
EntryNames(text) ==
    {Trimmed(SubSeq(text, a + 1, b - 1)) :
        <<a, b>> \in {p \in Cuts(text) \X Cuts(text) :
                         p[1] < p[2] /\ \A c \in Cuts(text) : ~(p[1] < c /\ c < p[2])}}
    \ {<<>>}

\* the first k of the stored chunks, in the order of ranking, whose source is
\* one of names (all chunks when names is empty)
ExpectedDocs(idx, ranking, k, names) ==
    LET ranked == [i \in 1..Len(ranking) |-> idx[ranking[i]]]
        allowed(c) == \/ names = {}
                      \/ /\ "source" \in DOMAIN c.metadata
                         /\ c.metadata["source"].ty = "str"
                         /\ c.metadata["source"].s \in names
        matching == SelectSeq(ranked, allowed)
    IN SubSeq(matching, 1, Min(k, Len(matching)))

(***************************************************************************)
(* C21: the documents parameter of a chat request is split on commas, each *)
(* entry trimmed and the empty entries dropped; when the parameter is      *)
(* absent, empty, white space only, or gives no non-empty entry (as        *)
(* " , "), the request retrieves from the whole index, and otherwise from  *)
(* exactly the chunks whose source is one of the parsed names.             *)
(***************************************************************************)
C21_DocumentsParameter ==
    \A r \in Requests :
        chat[r].pc \in {"generate", "done"} =>
            LET names == IF chat[r].documents.ty = "str"
                         THEN EntryNames(chat[r].documents.s) ELSE {}
            IN chat[r].docs = ExpectedDocs(index, chat[r].ranking, chat[r].top_k, names)

\* a request whose documents parameter is " , " retrieved chunks of two
\* different sources
C21_Witness ==
    \E r \in Requests :
        /\ chat[r].pc = "done"
        /\ chat[r].documents = PyStr(<<" ", ",", " ">>)
        /\ \E i, j \in 1..Len(chat[r].docs) :
               /\ "source" \in DOMAIN chat[r].docs[i].metadata
               /\ "source" \in DOMAIN chat[r].docs[j].metadata
               /\ chat[r].docs[i].metadata["source"] # chat[r].docs[j].metadata["source"]

(***************************************************************************)
(* C22: in every reachable state, under any interleaving of chat requests  *)
(* at the external calls, each session's history is a sequence of adjacent *)
(* (question, answer) pairs: its length is even, a human message is at     *)
(* every odd position and an ai message at every even one, and the two     *)
(* messages of a pair are of the same request, which has no other message. *)
(***************************************************************************)
C22_AdjacentPairs ==
    \A sid \in DOMAIN store :
        LET h == store[sid]
        IN /\ Len(h) % 2 = 0
           /\ \A i \in 1..Len(h) :
                  h[i].type = IF i % 2 = 1 THEN "human" ELSE "ai"
           /\ \A i \in 1..(Len(h) \div 2) :
                  /\ h[2 * i - 1].req = h[2 * i].req
                  /\ MsgsOf(h, h[2 * i].req) = {2 * i - 1, 2 * i}

\* three requests of one session are recorded, and the one that arrived
\* first is recorded last: the two others were answered while it waited
C22_Witness ==
    \E sid \in DOMAIN store :
        /\ Len(store[sid]) = 6
        /\ store[sid][5].req < store[sid][1].req
        /\ store[sid][5].req < store[sid][3].req

(***************************************************************************)
(* C23: a step of a chat request for session A leaves every other session  *)
(* as it was (not created, its history unchanged), and the history the     *)
(* request puts in its prompt is made of messages stored in A, none of     *)
(* them a message of a request recorded in another session.                *)
(***************************************************************************)
C23_SessionIsolation ==
    [][\A r \in Requests :
          chat'[r] # chat[r] =>
              LET A == IF chat[r].pc = "idle" THEN chat'[r].session_id
                       ELSE chat[r].session_id
              IN /\ \A B \in SessionIds \ {A} :
                        /\ (B \in DOMAIN store') = (B \in DOMAIN store)
                        /\ Hist(store', B) = Hist(store, B)
                 /\ (chat[r].pc = "retrieve" /\ chat'[r].pc = "generate") =>
                        LET shown == chat'[r].recent_messages
                        IN /\ \A i \in 1..Len(shown) :
                                  /\ \E j \in 1..Len(Hist(store, A)) :
                                         Hist(store, A)[j] = shown[i]
                                  /\ \A B \in DOMAIN store \ {A} :
                                         MsgsOf(store[B], shown[i].req) = {}
                           /\ chat'[r].history_text =
                                  Join([i \in 1..Len(shown) |->
                                           (IF shown[i].type = "human"
                                            THEN <<"H", "U", "M", "A", "N">>
                                            ELSE <<"A", "I">>)
                                           \o <<":", " ">> \o shown[i].content],
                                       <<"\n">>)]_vars

\* a request put the messages of its session in its prompt while another
\* session holds messages too
C23_Witness ==
    \E r \in Requests :
        /\ chat[r].pc = "generate"
        /\ chat[r].recent_messages # <<>>
        /\ \E B \in DOMAIN store \ {chat[r].session_id} : store[B] # <<>>

====
